---- MODULE Spec2Model ----
(***************************************************************************)
(* Wallet session (WalletConnect), its parent (App) and the burn workflow  *)
(* (BurnForm) of the Solana token burner, as state machines.               *)
(*                                                                         *)
(* A text is a sequence of strings.  Text typed by the user or returned by *)
(* the provider is kept one character per element; the literal pieces of   *)
(* a message are kept whole.  format!() is concatenation.                  *)
(* Option<T> is a sequence of length 0 (None) or 1 (Some).                 *)
(*                                                                         *)
(* A component's update() runs one message at a time.  spawn_local() puts  *)
(* a future on the task queue; link.send_message() and Callback::emit()    *)
(* put a message on the receiving component's queue.  User intents reach   *)
(* update() in arrival order, interleaved with the queued completions.     *)
(*                                                                         *)
(* Spec is the wallet session with App; BurnSpec is the burn form from the *)
(* moment App mounts it.  The two components share no field.               *)
(***************************************************************************)
EXTENDS Integers, Sequences, FiniteSets, TLC

VARIABLES
    connected,          \* WalletConnect.connected
    pub_key,            \* WalletConnect.pub_key : Option<String>
    connectTasks,       \* connect futures spawned and not yet run
    walletMsgs,         \* messages sent to WalletConnect, not yet handled
    appMsgs,            \* Msg::WalletConnected(status) sent to App, not yet handled
    wallet_connected,   \* App.wallet_connected
    amount,             \* BurnForm.amount
    status,             \* BurnForm.status : Option<String>
    loading,            \* BurnForm.loading
    burnTasks,          \* burn futures spawned and not yet run (their amount_str)
    burnMsgs            \* messages sent to BurnForm, not yet handled

walletVars == <<connected, pub_key, connectTasks, walletMsgs, appMsgs, wallet_connected>>
burnVars == <<amount, status, loading, burnTasks, burnMsgs>>
vars == <<connected, pub_key, connectTasks, walletMsgs, appMsgs, wallet_connected,
          amount, status, loading, burnTasks, burnMsgs>>

\* Calls dispatched and not yet folded back into a component, per component.
MaxInFlight == 2

None == <<>>
Some(x) == <<x>>

\* The decimal digits of a text.
Digits == {"0", "1", "2", "3", "4", "5", "6", "7", "8", "9"}

(***************************************************************************)
(* The host: what window.solana is when a future looks it up.              *)
(***************************************************************************)
\* The Scenario A key, a key shorter than 6 characters, one of 6 to 11
\* characters and one of exactly 12.
LongKey == <<"A","b","1","2","C","d","3","4","E","f","5","6","G","h","7","8">>
ShortKey == <<"A","b","1","2">>
MidKey == <<"A","b","1","2","C","d","3","4">>
TwelveKey == <<"A","b","1","2","C","d","3","4","E","f","5","6">>
Keys == {LongKey, ShortKey, MidKey, TwelveKey}

\* A property of the wallet object holding a function: absent or not a
\* function, a function that returns, a function that throws.
Capabilities == {"undefined", "returns", "throws"}

\* window.solana: an accessor that throws, undefined (no wallet installed),
\* or an object.  publicKey is None when it is absent or not a JS string.
NoWallet == [kind |-> "undefined", connect |-> "undefined",
             burnTokens |-> "undefined", publicKey |-> None]
ThrowingWallet == [kind |-> "throws", connect |-> "undefined",
                   burnTokens |-> "undefined", publicKey |-> None]
WalletObjects == [kind : {"object"}, connect : Capabilities,
                  burnTokens : Capabilities,
                  publicKey : {None} \cup {Some(k) : k \in Keys}]
WindowSolana == {NoWallet, ThrowingWallet} \cup WalletObjects

\* js_sys::Reflect::get(&window, "solana"): Err only if reading the property
\* throws; an absent property reads as Ok(undefined).
ReflectGetSolanaOk(w) == w.kind # "throws"

\* js_sys::Reflect::get(&solana, name): Reflect.get throws a TypeError on a
\* target that is not an object, so the result is Err for undefined.
ReflectGetPropertyOk(w) == w.kind = "object"

(***************************************************************************)
(* WalletConnect                                                           *)
(***************************************************************************)
MsgConnected(st, key) == [type |-> "Connected", status |-> st, key |-> key, text |-> <<>>]
WalletMsgError(text) == [type |-> "Error", status |-> FALSE, key |-> None, text |-> text]

PhantomNotFound == <<"Phantom wallet not found">>

\* The messages the future spawned by Msg::Connect sends, given window.solana.
ConnectTaskSends(w) ==
    IF ReflectGetSolanaOk(w)
    THEN IF ReflectGetPropertyOk(w) /\ w.connect = "returns"
         THEN <<MsgConnected(TRUE, w.publicKey)>>
         ELSE <<>>
    ELSE <<WalletMsgError(PhantomNotFound)>>

ConnectInFlight == connectTasks + Len(walletMsgs) + Len(appMsgs)

\* &key[..6] and &key[key.len()-6..]: both slices panic on a key shorter than
\* 6 (index out of range, and key.len()-6 overflows).
AbbreviatePanics(key) == Len(key) < 6

\* The second slice taken one character late: &key[key.len()-5..].
AbbreviateOffByOne(key) ==
    SubSeq(key, 1, 6) \o <<"...">> \o SubSeq(key, Len(key) - 5 + 1, Len(key))

\* format!("{}...{}", &key[..6], &key[key.len()-6..])
Abbreviate(key) ==
    SubSeq(key, 1, 6) \o <<"...">> \o SubSeq(key, Len(key) - 6 + 1, Len(key))

\* view(): the address line is rendered when connected with a key.
WalletViewPanics ==
    connected /\ pub_key # None /\ AbbreviatePanics(pub_key[1])

\* view(): the text of the wallet-address element, if it is rendered.
AddressShown ==
    IF connected /\ pub_key # None /\ ~AbbreviatePanics(pub_key[1])
    THEN Some(<<"Address: ">> \o Abbreviate(pub_key[1]))
    ELSE None

\* A panic while rendering aborts the application: nothing runs after it.
Running == ~WalletViewPanics

\* update(Msg::Connect): spawns the future, changes no field.
ConnectUpdate ==
    /\ connectTasks' = connectTasks + 1
    /\ UNCHANGED <<connected, pub_key, walletMsgs, appMsgs, wallet_connected>>
    /\ UNCHANGED burnVars

\* A Connect intent reaches update() while the application runs.
ConnectIntent == Running /\ ConnectUpdate

Connect ==
    /\ ConnectInFlight < MaxInFlight
    /\ ConnectIntent

\* The future spawned by Msg::Connect runs.
RunConnectTask ==
    /\ Running
    /\ connectTasks > 0
    /\ \E w \in WindowSolana :
          walletMsgs' = walletMsgs \o ConnectTaskSends(w)
    /\ connectTasks' = connectTasks - 1
    /\ UNCHANGED <<connected, pub_key, appMsgs, wallet_connected>>
    /\ UNCHANGED burnVars

\* Connected without `self.pub_key = key`.
ConnectedDropsKey ==
    /\ Running
    /\ walletMsgs # <<>>
    /\ Head(walletMsgs).type = "Connected"
    /\ connected' = Head(walletMsgs).status
    /\ appMsgs' = Append(appMsgs, Head(walletMsgs).status)
    /\ walletMsgs' = Tail(walletMsgs)
    /\ UNCHANGED <<pub_key, connectTasks, wallet_connected>>
    /\ UNCHANGED burnVars

\* update(Msg::Connected(status, key))
Connected ==
    /\ Running
    /\ walletMsgs # <<>>
    /\ Head(walletMsgs).type = "Connected"
    /\ connected' = Head(walletMsgs).status
    /\ pub_key' = Head(walletMsgs).key
    /\ appMsgs' = Append(appMsgs, Head(walletMsgs).status)
    /\ walletMsgs' = Tail(walletMsgs)
    /\ UNCHANGED <<connectTasks, wallet_connected>>
    /\ UNCHANGED burnVars

\* Error that also tells the parent: self.on_connect.emit(false).
WalletErrorEmitsDisconnected ==
    /\ Running
    /\ walletMsgs # <<>>
    /\ Head(walletMsgs).type = "Error"
    /\ connected' = FALSE
    /\ appMsgs' = Append(appMsgs, FALSE)
    /\ walletMsgs' = Tail(walletMsgs)
    /\ UNCHANGED <<pub_key, connectTasks, wallet_connected>>
    /\ UNCHANGED burnVars

\* update(Msg::Error(_))
WalletError ==
    /\ Running
    /\ walletMsgs # <<>>
    /\ Head(walletMsgs).type = "Error"
    /\ connected' = FALSE
    /\ walletMsgs' = Tail(walletMsgs)
    /\ UNCHANGED <<pub_key, connectTasks, appMsgs, wallet_connected>>
    /\ UNCHANGED burnVars

(***************************************************************************)
(* App                                                                     *)
(***************************************************************************)
\* update(Msg::WalletConnected(status))
WalletConnected ==
    /\ Running
    /\ appMsgs # <<>>
    /\ wallet_connected' = Head(appMsgs)
    /\ appMsgs' = Tail(appMsgs)
    /\ UNCHANGED <<connected, pub_key, connectTasks, walletMsgs>>
    /\ UNCHANGED burnVars

\* view(): <BurnForm /> is rendered only under `if self.wallet_connected`.
BurnFormMounted == wallet_connected

(***************************************************************************)
(* str::parse::<f64>() on the amount text                                  *)
(***************************************************************************)
DigitVal(c) ==
    CASE c = "0" -> 0 [] c = "1" -> 1 [] c = "2" -> 2 [] c = "3" -> 3
      [] c = "4" -> 4 [] c = "5" -> 5 [] c = "6" -> 6 [] c = "7" -> 7
      [] c = "8" -> 8 [] c = "9" -> 9

\* ASCII lower case of the letters the special values are spelled with.
LowerChar(c) ==
    CASE c = "I" -> "i" [] c = "N" -> "n" [] c = "F" -> "f" [] c = "A" -> "a"
      [] c = "T" -> "t" [] c = "Y" -> "y" [] OTHER -> c

LowerText(t) == [i \in 1..Len(t) |-> LowerChar(t[i])]

AllDigits(t) == \A i \in 1..Len(t) : t[i] \in Digits

\* Index of the first element of t in set S, or Len(t) + 1.
FirstIn(t, S) ==
    IF \E i \in 1..Len(t) : t[i] \in S
    THEN CHOOSE i \in 1..Len(t) : t[i] \in S /\ \A j \in 1..(i - 1) : t[j] \notin S
    ELSE Len(t) + 1

HasSign(t) == Len(t) > 0 /\ t[1] \in {"+", "-"}
IsNegative(t) == Len(t) > 0 /\ t[1] = "-"
Unsigned(t) == IF HasSign(t) THEN Tail(t) ELSE t

\* The parts of an unsigned decimal literal: integer digits, fraction digits,
\* whether an exponent marker is present, and the text after it.
Mantissa(u) == SubSeq(u, 1, FirstIn(u, {"e", "E"}) - 1)
HasExponent(u) == FirstIn(u, {"e", "E"}) <= Len(u)
ExponentText(u) == SubSeq(u, FirstIn(u, {"e", "E"}) + 1, Len(u))
IntPart(u) == SubSeq(Mantissa(u), 1, FirstIn(Mantissa(u), {"."}) - 1)
FracPart(u) == SubSeq(Mantissa(u), FirstIn(Mantissa(u), {"."}) + 1, Len(Mantissa(u)))

\* digits [ "." digits ] [ (e|E) [sign] digits ], with at least one mantissa
\* digit and at least one exponent digit when the marker is present.
IsDecimal(u) ==
    /\ AllDigits(IntPart(u))
    /\ AllDigits(FracPart(u))
    /\ Len(IntPart(u)) + Len(FracPart(u)) >= 1
    /\ HasExponent(u) =>
          /\ Len(Unsigned(ExponentText(u))) >= 1
          /\ AllDigits(Unsigned(ExponentText(u)))

RECURSIVE DigitsValue(_)
DigitsValue(d) ==
    IF d = <<>> THEN 0
    ELSE 10 * DigitsValue(SubSeq(d, 1, Len(d) - 1)) + DigitVal(d[Len(d)])

ExponentValue(u) ==
    IF HasExponent(u)
    THEN (IF IsNegative(ExponentText(u)) THEN -1 ELSE 1)
            * DigitsValue(Unsigned(ExponentText(u)))
    ELSE 0

MantissaDigits(u) == IntPart(u) \o FracPart(u)
IsZeroMantissa(u) == \A i \in 1..Len(MantissaDigits(u)) : MantissaDigits(u)[i] = "0"

\* The significant digits (from the first nonzero one) and the power of ten
\* of the first of them.
Significant(u) ==
    SubSeq(MantissaDigits(u), FirstIn(MantissaDigits(u), Digits \ {"0"}),
           Len(MantissaDigits(u)))
LeadingPower(u) ==
    Len(IntPart(u)) - FirstIn(MantissaDigits(u), Digits \ {"0"}) + ExponentValue(u)

\* Compares d.ddd... given as digit sequences, the shorter padded with zeros:
\* -1, 0 or 1.
RECURSIVE CompareDigits(_, _)
CompareDigits(a, b) ==
    IF a = <<>> /\ b = <<>> THEN 0
    ELSE LET x == IF a = <<>> THEN 0 ELSE DigitVal(a[1])
             y == IF b = <<>> THEN 0 ELSE DigitVal(b[1])
         IN  IF x < y THEN -1
             ELSE IF x > y THEN 1
             ELSE CompareDigits(IF a = <<>> THEN a ELSE Tail(a),
                                IF b = <<>> THEN b ELSE Tail(b))

\* f64: values of at least 1.797693134862315808e308 round to infinity, values
\* of at most 2.470328229206232720e-324 round to zero.
MaxDecimalPower == 308
OverflowDigits ==
    <<"1","7","9","7","6","9","3","1","3","4","8","6","2","3","1","5","8","0","8">>
MinDecimalPower == -324
UnderflowDigits ==
    <<"2","4","7","0","3","2","8","2","2","9","2","0","6","2","3","2","7","2","0">>

Overflows(u) ==
    \/ LeadingPower(u) > MaxDecimalPower
    \/ /\ LeadingPower(u) = MaxDecimalPower
       /\ CompareDigits(Significant(u), OverflowDigits) >= 0
Underflows(u) ==
    \/ LeadingPower(u) < MinDecimalPower
    \/ /\ LeadingPower(u) = MinDecimalPower
       /\ CompareDigits(Significant(u), UnderflowDigits) <= 0

F64(class, neg) == [ok |-> TRUE, class |-> class, neg |-> neg]
ParseFloatError == [ok |-> FALSE, class |-> "error", neg |-> FALSE]

\* text.parse::<f64>(): Err, or the class and sign of the value.
ParseF64(t) ==
    LET u == Unsigned(t)
        neg == IsNegative(t)
    IN  IF u = <<>> THEN ParseFloatError
        ELSE IF LowerText(u) \in {<<"i","n","f">>, <<"i","n","f","i","n","i","t","y">>}
             THEN F64("inf", neg)
        ELSE IF LowerText(u) = <<"n","a","n">> THEN F64("nan", neg)
        ELSE IF ~IsDecimal(u) THEN ParseFloatError
        ELSE IF IsZeroMantissa(u) \/ Underflows(u) THEN F64("zero", neg)
        ELSE IF Overflows(u) THEN F64("inf", neg)
        ELSE F64("finite", neg)

\* amount <= 0.0 on f64: false for NaN, true for both zeros.
LeZero(v) ==
    CASE v.class = "nan" -> FALSE
      [] v.class = "zero" -> TRUE
      [] OTHER -> v.neg

(***************************************************************************)
(* BurnForm                                                                *)
(***************************************************************************)
\* The texts the amount input delivers in Msg::UpdateAmount.
AmountTexts ==
    { <<>>,
      <<" ">>,
      <<"a","b","c">>,
      <<"1",".","2",".","3">>,
      <<"0">>,
      <<"-","3">>,
      <<"5">>,
      <<"0",".","0","0","0","0","0","1">>,
      <<"1","e","-","4","0","0">>,
      <<"i","n","f">>,
      <<"N","a","N">> }

MustBeGreaterThanZero == <<"Amount must be greater than 0">>
InvalidAmount == <<"Invalid amount">>
FailedToBurn == <<"Failed to burn tokens">>
\* format!("Successfully burned {} tokens", amount_str)
SuccessfullyBurned(amount_str) == <<"Successfully burned ">> \o amount_str \o <<" tokens">>

MsgTransactionComplete(text) == [type |-> "TransactionComplete", text |-> text]
BurnMsgError(text) == [type |-> "Error", text |-> text]

\* The messages the future spawned by Msg::Burn sends, given window.solana
\* and the amount text it captured.
BurnTaskSends(w, amount_str) ==
    IF ReflectGetSolanaOk(w) /\ ReflectGetPropertyOk(w)
    THEN CASE w.burnTokens = "returns" ->
                <<MsgTransactionComplete(SuccessfullyBurned(amount_str))>>
           [] w.burnTokens = "throws" -> <<BurnMsgError(FailedToBurn)>>
           [] OTHER -> <<>>
    ELSE <<>>

BurnInFlight == Len(burnTasks) + Len(burnMsgs)

\* UpdateAmount that spends the first edit after a result on clearing the
\* result, and only then takes the text.
UpdateAmountResetsFirst(text) ==
    /\ BurnFormMounted
    /\ IF status # None /\ ~loading
       THEN status' = None /\ UNCHANGED amount
       ELSE amount' = text /\ UNCHANGED status
    /\ UNCHANGED <<loading, burnTasks, burnMsgs>>
    /\ UNCHANGED walletVars

\* update(Msg::UpdateAmount(amount))
UpdateAmount(text) ==
    /\ BurnFormMounted
    /\ amount' = text
    /\ UNCHANGED <<status, loading, burnTasks, burnMsgs>>
    /\ UNCHANGED walletVars

\* Burn with `self.loading = true` hoisted above the validation.
BurnSetsLoadingFirst ==
    /\ BurnFormMounted
    /\ LET parsed == ParseF64(amount)
       IN  IF parsed.ok
           THEN IF LeZero(parsed)
                THEN /\ status' = Some(MustBeGreaterThanZero)
                     /\ loading' = TRUE
                     /\ UNCHANGED <<amount, burnTasks, burnMsgs>>
                ELSE /\ BurnInFlight < MaxInFlight
                     /\ loading' = TRUE
                     /\ burnTasks' = Append(burnTasks, amount)
                     /\ UNCHANGED <<amount, status, burnMsgs>>
           ELSE /\ status' = Some(InvalidAmount)
                /\ loading' = TRUE
                /\ UNCHANGED <<amount, burnTasks, burnMsgs>>
    /\ UNCHANGED walletVars

\* update(Msg::Burn)
Burn ==
    /\ BurnFormMounted
    /\ LET parsed == ParseF64(amount)
       IN  IF parsed.ok
           THEN IF LeZero(parsed)
                THEN /\ status' = Some(MustBeGreaterThanZero)
                     /\ UNCHANGED <<amount, loading, burnTasks, burnMsgs>>
                ELSE /\ BurnInFlight < MaxInFlight
                     /\ loading' = TRUE
                     /\ burnTasks' = Append(burnTasks, amount)
                     /\ UNCHANGED <<amount, status, burnMsgs>>
           ELSE /\ status' = Some(InvalidAmount)
                /\ UNCHANGED <<amount, loading, burnTasks, burnMsgs>>
    /\ UNCHANGED walletVars

\* The future reading the form's amount when it runs instead of the
\* amount_str it captured.
RunBurnTaskReadsAmountLate ==
    /\ burnTasks # <<>>
    /\ \E w \in WindowSolana :
          burnMsgs' = burnMsgs \o BurnTaskSends(w, amount)
    /\ burnTasks' = Tail(burnTasks)
    /\ UNCHANGED <<amount, status, loading>>
    /\ UNCHANGED walletVars

\* The future spawned by Msg::Burn runs.
RunBurnTask ==
    /\ burnTasks # <<>>
    /\ \E w \in WindowSolana :
          burnMsgs' = burnMsgs \o BurnTaskSends(w, Head(burnTasks))
    /\ burnTasks' = Tail(burnTasks)
    /\ UNCHANGED <<amount, status, loading>>
    /\ UNCHANGED walletVars

\* TransactionComplete without `self.amount = String::new()`.
TransactionCompleteKeepsAmount ==
    /\ burnMsgs # <<>>
    /\ Head(burnMsgs).type = "TransactionComplete"
    /\ loading' = FALSE
    /\ status' = Some(Head(burnMsgs).text)
    /\ burnMsgs' = Tail(burnMsgs)
    /\ UNCHANGED <<amount, burnTasks>>
    /\ UNCHANGED walletVars

\* update(Msg::TransactionComplete(signature))
TransactionComplete ==
    /\ burnMsgs # <<>>
    /\ Head(burnMsgs).type = "TransactionComplete"
    /\ loading' = FALSE
    /\ status' = Some(Head(burnMsgs).text)
    /\ amount' = <<>>
    /\ burnMsgs' = Tail(burnMsgs)
    /\ UNCHANGED burnTasks
    /\ UNCHANGED walletVars

\* Error handled like a success: the amount text is cleared as well.
BurnErrorClearsAmount ==
    /\ burnMsgs # <<>>
    /\ Head(burnMsgs).type = "Error"
    /\ loading' = FALSE
    /\ status' = Some(Head(burnMsgs).text)
    /\ amount' = <<>>
    /\ burnMsgs' = Tail(burnMsgs)
    /\ UNCHANGED burnTasks
    /\ UNCHANGED walletVars

\* update(Msg::Error(error))
BurnError ==
    /\ burnMsgs # <<>>
    /\ Head(burnMsgs).type = "Error"
    /\ loading' = FALSE
    /\ status' = Some(Head(burnMsgs).text)
    /\ burnMsgs' = Tail(burnMsgs)
    /\ UNCHANGED <<amount, burnTasks>>
    /\ UNCHANGED walletVars

InitBurnForm ==
    /\ amount = <<>>
    /\ status = None
    /\ loading = FALSE
    /\ burnTasks = <<>>
    /\ burnMsgs = <<>>

Init ==
    /\ connected = FALSE
    /\ pub_key = None
    /\ connectTasks = 0
    /\ walletMsgs = <<>>
    /\ appMsgs = <<>>
    /\ wallet_connected = FALSE
    /\ InitBurnForm

Next ==
    \/ Connect
    \/ RunConnectTask
    \/ Connected
    \/ WalletError
    \/ WalletConnected

Spec == Init /\ [][Next]_vars

\* The burn form as App mounts it: the session is connected and the
\* notification has reached App.
InitBurn ==
    /\ connected = TRUE
    /\ pub_key = Some(LongKey)
    /\ connectTasks = 0
    /\ walletMsgs = <<>>
    /\ appMsgs = <<>>
    /\ wallet_connected = TRUE
    /\ InitBurnForm

NextBurn ==
    \/ \E text \in AmountTexts : UpdateAmount(text)
    \/ Burn
    \/ RunBurnTask
    \/ TransactionComplete
    \/ BurnError

BurnSpec == InitBurn /\ [][NextBurn]_vars

(***************************************************************************)
(* Properties                                                              *)
(***************************************************************************)

\* C1: at most one adapter burn call is outstanding at any time (a Burn
\* intent arriving while loading = true starts no second call).
C1_AtMostOneBurnOutstanding == BurnInFlight <= 1

\* C2: at most one adapter connect call is outstanding at any time (a
\* Connect intent arriving while a connect is in flight dispatches nothing).
C2_AtMostOneConnectOutstanding == connectTasks + Len(walletMsgs) <= 1

\* C3: in every reachable state the public key is set if and only if the
\* session is connected.
C3_PublicKeyIffConnected == (pub_key # None) <=> connected

\* C4: whenever no notification to App is in transit, App.wallet_connected
\* equals the session's connected flag, and the burn form is mounted only
\* while the session is connected.
C4_AppFollowsSession ==
    appMsgs = <<>> =>
        /\ wallet_connected = connected
        /\ BurnFormMounted => connected

\* C5: a submission that entered Submitting (loading = true) is never left
\* without a pending completion: while loading holds, its burn future or the
\* future's completion message is still on its way.
C5_SubmittingIsResolved == loading => BurnInFlight > 0

\* C6: every connect future that runs hands a completion to the session
\* (Connected on success, a failure completion otherwise).
C6_ConnectAlwaysCompletes ==
    [][connectTasks' < connectTasks => Len(walletMsgs') = Len(walletMsgs) + 1]_vars

\* The amount text does not parse, or parses to a value <= 0.
AmountInvalid(t) == ~ParseF64(t).ok \/ LeZero(ParseF64(t))
ValidatorMessage(t) ==
    IF ParseF64(t).ok THEN MustBeGreaterThanZero ELSE InvalidAmount

\* C7: a Burn intent on an invalid amount text stores the validator's error,
\* dispatches no burn call, does not enter Submitting (from a workflow that
\* is not Submitting the result is Failed) and leaves the amount text as
\* submitted.
C7_InvalidAmountFailsWithoutCall ==
    [][(Burn /\ AmountInvalid(amount)) =>
          /\ status' = Some(ValidatorMessage(amount))
          /\ burnTasks' = burnTasks
          /\ burnMsgs' = burnMsgs
          /\ loading' = loading
          /\ amount' = amount]_vars

\* Scenario C reached: "-3" submitted, Failed, nothing dispatched.
C7_Witness ==
    /\ amount = <<"-","3">>
    /\ status = Some(MustBeGreaterThanZero)
    /\ ~loading
    /\ BurnInFlight = 0

\* The text is a finite decimal literal (no infinity, no NaN).
IsFiniteDecimalText(t) == Unsigned(t) # <<>> /\ IsDecimal(Unsigned(t))

\* C8: a Burn intent fails with NotANumber on a text that is not a finite
\* decimal number, with NonPositive on one whose parsed value is <= 0, and
\* dispatches the burn call otherwise.
C8_ValidationOnSubmit ==
    [][Burn =>
          IF ~IsFiniteDecimalText(amount)
          THEN status' = Some(InvalidAmount) /\ burnTasks' = burnTasks
          ELSE IF LeZero(ParseF64(amount))
          THEN status' = Some(MustBeGreaterThanZero) /\ burnTasks' = burnTasks
          ELSE burnTasks' = Append(burnTasks, amount)]_vars

\* C9: an UpdateAmount intent that arrives while loading = true changes no
\* field of the workflow.
C9_EditIgnoredWhileSubmitting ==
    [][(loading /\ \E text \in AmountTexts : UpdateAmount(text)) =>
          UNCHANGED burnVars]_vars

\* C10: an UpdateAmount intent in Succeeded or Failed (not loading, a result
\* stored) resets the workflow to Idle: the stored result is cleared.
C10_EditResetsToIdle ==
    [][(~loading /\ status # None /\ \E text \in AmountTexts : UpdateAmount(text)) =>
          (status' = None /\ ~loading')]_vars

\* C11: when the burn call's success completion is handled, the workflow is
\* no longer Submitting, the confirmation string is stored and the amount
\* text is empty.
C11_SuccessClearsAmount ==
    [][TransactionComplete =>
          /\ ~loading'
          /\ status' = Some(Head(burnMsgs).text)
          /\ Head(burnMsgs).text \in {SuccessfullyBurned(t) : t \in AmountTexts}
          /\ amount' = <<>>]_vars

\* Scenario B reached: "5" submitted, the call succeeded, Succeeded with an
\* empty amount text.
C11_Witness ==
    /\ status = Some(SuccessfullyBurned(<<"5">>))
    /\ ~loading
    /\ amount = <<>>
    /\ BurnInFlight = 0

\* C12: when the burn call's failure completion is handled, the workflow is
\* no longer Submitting, the error message is stored and the amount text is
\* exactly what it was before the completion.
C12_FailureKeepsAmount ==
    [][BurnError =>
          /\ ~loading'
          /\ status' = Some(FailedToBurn)
          /\ amount' = amount]_vars

\* "5" submitted, the call failed: Failed, and "5" is still there to retry.
C12_Witness ==
    /\ status = Some(FailedToBurn)
    /\ ~loading
    /\ amount = <<"5">>
    /\ BurnInFlight = 0

\* C13: no reachable state makes rendering panic, whatever string the
\* provider returned as the public key.
C13_NeverPanics == ~WalletViewPanics

\* The address element's text after its "Address: " label.
DisplayedAddress ==
    IF AddressShown = None THEN None ELSE Some(Tail(AddressShown[1]))

C15_ScenarioA_AsStated ==
    [][(Connected /\ Head(walletMsgs).key = Some(LongKey)) =>
          /\ connected'
          /\ DisplayedAddress' =
                Some(<<"A","b","1","2","C","d","...","G","h","7","8">>)]_vars

\* C15 amended: handling the completion that carries the key
\* "Ab12Cd34Ef56Gh78" leaves the session connected and shows
\* "Ab12Cd...56Gh78" (first 6, "...", last 6 characters).
C15_ScenarioA ==
    [][(Connected /\ Head(walletMsgs).key = Some(LongKey)) =>
          /\ connected'
          /\ pub_key' = Some(LongKey)
          /\ DisplayedAddress' =
                Some(<<"A","b","1","2","C","d","...","5","6","G","h","7","8">>)]_vars

\* Scenario A reached from the initial, disconnected session.
C15_Witness ==
    /\ connected
    /\ pub_key = Some(LongKey)
    /\ connectTasks = 0
    /\ walletMsgs = <<>>
    /\ DisplayedAddress =
          Some(<<"A","b","1","2","C","d","...","5","6","G","h","7","8">>)

\* C16: in every reachable state with no connect call in flight, a Connect
\* intent is accepted and dispatches a fresh connect call.
C16_ConnectAlwaysAccepted ==
    (connectTasks = 0 /\ walletMsgs = <<>>) =>
        ENABLED (ConnectIntent /\ connectTasks' = 1)

\* UpdateAmount(text) applied in the current state changes nothing.
UpdateAmountIsNoOp(text) == ~ENABLED (UpdateAmount(text) /\ vars' # vars)

\* C17: after UpdateAmount(x) has been applied, applying UpdateAmount(x)
\* again changes nothing, for every text x and from every reachable state.
C17_UpdateAmountIdempotent ==
    [][\A text \in AmountTexts :
          UpdateAmount(text) => UpdateAmountIsNoOp(text)']_vars

\* UpdateAmount("5") applied to a form that holds a result of an earlier
\* attempt.
C17_Witness ==
    /\ amount = <<"5">>
    /\ status = Some(InvalidAmount)
    /\ ~loading

\* C18: in every reachable state loading is true if and only if a dispatched
\* burn call has not yet delivered its completion message.
C18_LoadingIffOutstanding == loading <=> (BurnInFlight > 0)

\* C19: the amount a burn future carries to the provider's call is the amount
\* text as it was when the Burn intent was handled; no later step changes
\* it, and the success message the future sends names exactly that amount.
C19_AmountCapturedAtBurn ==
    [][/\ Len(burnTasks') > Len(burnTasks) => burnTasks' = Append(burnTasks, amount)
       /\ Len(burnTasks') = Len(burnTasks) => burnTasks' = burnTasks
       /\ Len(burnTasks') < Len(burnTasks) =>
             /\ burnTasks' = Tail(burnTasks)
             /\ burnMsgs' \in
                   { burnMsgs,
                     Append(burnMsgs, BurnMsgError(FailedToBurn)),
                     Append(burnMsgs, MsgTransactionComplete(
                        <<"Successfully burned ">> \o Head(burnTasks) \o <<" tokens">>)) }
       /\ burnTasks' = burnTasks =>
             \/ burnMsgs' = burnMsgs
             \/ burnMsgs # <<>> /\ burnMsgs' = Tail(burnMsgs)]_vars

\* A success message for "5" is pending while the form's amount text has
\* been edited since the Burn.
C19_Witness ==
    /\ burnMsgs # <<>>
    /\ Head(burnMsgs) = MsgTransactionComplete(SuccessfullyBurned(<<"5">>))
    /\ amount = <<"-","3">>

\* C20: every notification WalletConnect sends to App carries true, so
\* App.wallet_connected never returns to false and the burn form, once
\* mounted, stays mounted.
C20_NeverEmitsFalse ==
    [][/\ \A i \in 1..Len(appMsgs') : appMsgs'[i] = TRUE
       /\ wallet_connected => wallet_connected'
       /\ BurnFormMounted => BurnFormMounted']_vars

\* The session has failed after a connection and the burn form is still
\* mounted.
C20_Witness ==
    /\ wallet_connected
    /\ BurnFormMounted
    /\ ~connected
    /\ ConnectInFlight = 0

====
